---- MODULE Spec2Model ----
(***************************************************************************)
(* Model of sliding_window_py/dataset/extract_patches.py: the box          *)
(* geometry (confine_box, pad_to_square), the label parser                 *)
(* (convert_label_to_dict) and the extraction driver (process_images,      *)
(* create_output_folders, extract_patch_data).                             *)
(*                                                                         *)
(* A box is the Python list [left, top, right, bottom]; Python's box[k]    *)
(* is box[k+1] here, since TLA+ sequences start at 1.                      *)
(*                                                                         *)
(* A Python int has no width; pad_to_square divides one by 2 in floating   *)
(* point (line 188), which is exact only up to 2^53.  To keep both, an     *)
(* integer is the pair <<hi, lo>> of value hi * 2^27 + lo with             *)
(* 0 <= lo < 2^27, and the division rounds to 53 significant bits.         *)
(***************************************************************************)
EXTENDS Integers, Sequences, FiniteSets, TLC

\* ------------------------------------------------------------------ bounds
\* Small box coordinates handed to the geometry functions: -1..MaxCoord.
MaxCoord == 2
\* Small bounds handed to the geometry functions: 0..MaxBound.
MaxBound == 2
\* Image height and width range over 1..MaxDim.
MaxDim == 2
\* A label file holds at most MaxLabels lines.
MaxLabels == 2
\* A dataset holds at most MaxImages images.
MaxImages == 2
\* The bbox fields of a label line range over 0, 0.5, ..., MaxHalfCoord / 2.
MaxHalfCoord == 3

\* Significant bits of a Python float (IEEE 754 binary64).
MantissaBits == 53

VARIABLES
    pc,         \* position of the program
    box,        \* the box list being worked on (mutated in place)
    original,   \* pad_to_square's copy of its input box
    input,      \* geometry runs: the box first handed in
    clamped,    \* the box as confine_box left it
    bnd,        \* geometry runs: <<ymin, xmin, ymax, xmax>>
    out_dirs,   \* whether <<output/patches, output/labels>> are directories
    nImages,    \* number of image files the glob yields
    imgIdx,     \* number of images the loop of process_images has taken
    image,      \* cv2.imread's result: <<height, width>>, or None
    nLabels,    \* len(labels)
    i,          \* number of labels the loop of extract_patch_data has taken
    class_label,\* label_dict['class'] of the current label
    log         \* what the run has printed and written, in order

vars == <<pc, box, original, input, clamped, bnd, out_dirs, nImages, imgIdx,
          image, nLabels, i, class_label, log>>

None == <<>>

\* ------------------------------------------------------- integer arithmetic
Limb == 2 ^ 27
RECURSIVE BitLen(_)
\* int.bit_length() of a natural number below Limb * 2^31.
BitLen(n) == IF n = 0 THEN 0 ELSE 1 + BitLen(n \div 2)
LimbBits == BitLen(Limb) - 1

\* The integer n as a pair.
W(n) == << n \div Limb, n % Limb >>
\* a + b, -a, a - b, a < b, a <= b, max, min and abs on pairs.
WAdd(a, b) == LET s == a[2] + b[2] IN << a[1] + b[1] + (s \div Limb), s % Limb >>
WNeg(a) == IF a[2] = 0 THEN << 0 - a[1], 0 >> ELSE << 0 - a[1] - 1, Limb - a[2] >>
WSub(a, b) == WAdd(a, WNeg(b))
WLt(a, b) == a[1] < b[1] \/ (a[1] = b[1] /\ a[2] < b[2])
WLe(a, b) == a = b \/ WLt(a, b)
Max(a, b) == IF WLe(b, a) THEN a ELSE b
Min(a, b) == IF WLe(a, b) THEN a ELSE b
Abs(a) == IF a[1] < 0 THEN WNeg(a) ELSE a
WBitLen(d) == IF d[1] = 0 THEN BitLen(d[2]) ELSE LimbBits + BitLen(d[1])
\* floor(p / 2) and ceil(p / 2), exactly.
WFloorHalf(p) == << p[1] \div 2, (p[1] % 2) * (Limb \div 2) + (p[2] \div 2) >>
WCeilHalf(p) == WAdd(WFloorHalf(p), W(p[2] % 2))

NoBox == << W(0), W(0), W(0), W(0) >>
WBox(a, b, c, d) == << W(a), W(b), W(c), W(d) >>

\* ---------------------------------------------------------- pure functions
\* padding = d / 2 for an int d >= 0, as twice its value: the quotient is
\* rounded to the nearest float, a tie to the even mantissa.  d of at most
\* MantissaBits bits is kept; beyond, d is rounded to a multiple of q.
true_div_2(d) ==
    LET n == WBitLen(d) IN
    IF n <= MantissaBits THEN d
    ELSE LET q == 2 ^ (n - MantissaBits)
             r == d[2] % q
             base == WSub(d, W(r))
             odd == ((d[2] - r) \div q) % 2 = 1
             up == 2 * r > q \/ (2 * r = q /\ odd)
         IN  IF up THEN WAdd(base, W(q)) ELSE base

\* math.ceil(padding) and math.floor(padding) for padding = d / 2.
ceil_half(d) == WCeilHalf(true_div_2(d))
floor_half(d) == WFloorHalf(true_div_2(d))

\* confine_box with its coordinates clipped by the bounds of the other axis.
confine_box_axes(b, ymin, xmin, ymax, xmax) ==
    << Max(ymin, Min(ymax, b[1])),
       Max(xmin, Min(xmax, b[2])),
       Max(ymin, Min(ymax, b[3])),
       Max(xmin, Min(xmax, b[4])) >>

\* confine_box with the upper bounds taken as exclusive.
confine_box_excl(b, ymin, xmin, ymax, xmax) ==
    << Max(xmin, Min(WSub(xmax, W(1)), b[1])),
       Max(ymin, Min(WSub(ymax, W(1)), b[2])),
       Max(xmin, Min(WSub(xmax, W(1)), b[3])),
       Max(ymin, Min(WSub(ymax, W(1)), b[4])) >>

\* confine_box(box, ymin, xmin, ymax, xmax): the box after the call.
confine_box(b, ymin, xmin, ymax, xmax) ==
    << Max(xmin, Min(xmax, b[1])),
       Max(ymin, Min(ymax, b[2])),
       Max(xmin, Min(xmax, b[3])),
       Max(ymin, Min(ymax, b[4])) >>


\* The edge correction of pad_to_square on one axis: the interval <<lo, hi>>
\* after the lower-bound test and then the upper-bound test.
shift_inwards(lo, hi, bmin, bmax) ==
    LET hi1 == IF WLt(lo, bmin) THEN WAdd(hi, WSub(bmin, lo)) ELSE hi
        lo1 == IF WLt(lo, bmin) THEN bmin ELSE lo
        lo2 == IF WLt(bmax, hi1) THEN WSub(lo1, WSub(hi1, bmax)) ELSE lo1
        hi2 == IF WLt(bmax, hi1) THEN bmax ELSE hi1
    IN  << lo2, hi2 >>


\* The growth with its signs swapped: the interval shrinks by d.
grow_swapped_signs(lo, hi, d) == << WAdd(lo, ceil_half(d)), WSub(hi, floor_half(d)) >>

\* The growth of the shorter axis: ceil(padding) off the min side,
\* floor(padding) onto the max side, d = abs(width - height).
grow(lo, hi, d) == << WSub(lo, ceil_half(d)), WAdd(hi, floor_half(d)) >>

\* The final containment test of pad_to_square.
outside(b, ymin, xmin, ymax, xmax) ==
    WLt(b[1], xmin) \/ WLt(xmax, b[3]) \/ WLt(b[2], ymin) \/ WLt(ymax, b[4])



\* pad_to_square(box, ymin, xmin, ymax, xmax): the box list after the call
\* (it is mutated in place before the test) and whether ValueError is raised.
pad_to_square(b, ymin, xmin, ymax, xmax) ==
    LET height == WSub(b[4], b[2])
        width == WSub(b[3], b[1])
        d == Abs(WSub(width, height))
        ys == LET g == grow(b[2], b[4], d) IN shift_inwards(g[1], g[2], ymin, ymax)
        xs == LET g == grow(b[1], b[3], d) IN shift_inwards(g[1], g[2], xmin, xmax)
        nb == IF WLt(height, width) THEN << b[1], ys[1], b[3], ys[2] >>
              ELSE IF WLt(width, height) THEN << xs[1], b[2], xs[2], b[4] >>
              ELSE b
    IN  [box |-> nb, raised |-> outside(nb, ymin, xmin, ymax, xmax)]

\* ------------------------------------------------- geometry specification
\* 2^53: every d up to it has an exact d / 2 in floating point.
ExactLimit == << 2 ^ (MantissaBits - LimbBits), 0 >>
\* A coordinate beyond it: 2^53 + 1.
Huge == WAdd(ExactLimit, W(1))

BoxCoords == { W(n) : n \in (0 - 1)..MaxCoord } \cup { Huge }
BoundCoords == { W(n) : n \in 0..MaxBound } \cup { Huge }
Boxes == { <<a, b, c, d>> : a \in BoxCoords, b \in BoxCoords,
                            c \in BoxCoords, d \in BoxCoords }
\* <<ymin, xmin, ymax, xmax>> with min <= max on both axes.
Bounds == { q \in { <<a, b, c, d>> : a \in BoundCoords, b \in BoundCoords,
                                     c \in BoundCoords, d \in BoundCoords } :
            WLe(q[1], q[3]) /\ WLe(q[2], q[4]) }

InitCommon ==
    /\ original = NoBox
    /\ clamped = NoBox
    /\ class_label = ""
    /\ log = <<>>
    /\ imgIdx = 0
    /\ image = None
    /\ nLabels = 0
    /\ i = 0

InitGeom ==
    /\ InitCommon
    /\ pc = "g_start"
    /\ box \in Boxes
    /\ input = box
    /\ bnd \in Bounds
    /\ nImages = 0
    /\ out_dirs = <<FALSE, FALSE>>

driver_vars == <<out_dirs, nImages, imgIdx, image, nLabels, i, class_label, log>>

\* confine_box(box, *bnd) on the box handed in.
CallConfine ==
    /\ pc = "g_start"
    /\ box' = confine_box(box, bnd[1], bnd[2], bnd[3], bnd[4])
    /\ clamped' = box'
    /\ pc' = "g_confined"
    /\ UNCHANGED <<original, input, bnd, driver_vars>>

\* confine_box(box, *bnd) a second time, on its own result.
CallConfineAgain ==
    /\ pc = "g_confined"
    /\ box' = confine_box(box, bnd[1], bnd[2], bnd[3], bnd[4])
    /\ pc' = "g_confined2"
    /\ UNCHANGED <<original, input, clamped, bnd, driver_vars>>

\* pad_to_square(box, *bnd), on the box as handed in or as confined.
CallPad ==
    /\ pc \in {"g_start", "g_confined"}
    /\ LET r == pad_to_square(box, bnd[1], bnd[2], bnd[3], bnd[4]) IN
        /\ original' = box
        /\ box' = r.box
        /\ pc' = IF r.raised THEN (IF pc = "g_start" THEN "g_raised" ELSE "g_confined_raised")
                 ELSE (IF pc = "g_start" THEN "g_padded" ELSE "g_confined_padded")
    /\ UNCHANGED <<input, clamped, bnd, driver_vars>>

NextGeom == CallConfine \/ CallConfineAgain \/ CallPad

SpecGeom == InitGeom /\ [][NextGeom]_vars

\* ------------------------------------------------------------ label lines
\* A line of a label file: the number of its space-separated fields, whether
\* its numeric fields parse (float / int), its first field, and its fields
\* 4..7 (the bbox: left, top, right, bottom) counted in halves of a pixel.
\* Nothing in the code orders left against right or top against bottom.
HalfCoords == 0..MaxHalfCoord
\* The first field is copied to the label file as it is; nothing branches on it.
Classes == {"Car"}
GoodLines ==
    { [fields |-> 15, numeric |-> TRUE, cls |-> c, bbox |-> <<x1, y1, x2, y2>>] :
        c \in Classes, x1 \in HalfCoords, y1 \in HalfCoords,
        x2 \in HalfCoords, y2 \in HalfCoords }
\* A blank line, a truncated line, and a line with a field that is no number.
BadLines ==
    { [fields |-> 1, numeric |-> TRUE, cls |-> "", bbox |-> <<0, 0, 0, 0>>],
      [fields |-> 14, numeric |-> TRUE, cls |-> "Car", bbox |-> <<0, 0, 2, 2>>],
      [fields |-> 15, numeric |-> FALSE, cls |-> "Car", bbox |-> <<0, 0, 2, 2>>] }

\* round(float(x)) for x = h / 2: Python 3 rounds a half to the even integer.
round_half(h) ==
    IF h % 2 = 0 THEN h \div 2
    ELSE IF (h \div 2) % 2 = 0 THEN h \div 2 ELSE (h \div 2) + 1

\* convert_label_to_dict(label): content[1] .. content[14] are indexed, so a
\* line of fewer than 15 fields raises IndexError, and float() / int() raise
\* ValueError on a field that is no number; otherwise 'class' and 'bbox'.
convert_label_to_dict(label) ==
    IF label.fields < 15 \/ ~label.numeric
        THEN [raised |-> TRUE, class |-> "", bbox |-> NoBox]
        ELSE [raised |-> FALSE, class |-> label.cls,
              bbox |-> WBox(round_half(label.bbox[1]), round_half(label.bbox[2]),
                            round_half(label.bbox[3]), round_half(label.bbox[4]))]

\* ------------------------------------------------------------- the driver
Shapes == { <<h, w>> : h \in 1..MaxDim, w \in 1..MaxDim }
geom_vars == <<input, bnd>>
\* The locals of extract_patch_data.
locals == <<box, original, clamped, image, nLabels, i, class_label>>

\* What the run prints and writes: the message of create_output_folders
\* about a directory, a warning of pad_to_square's ValueError, a warning of
\* a zero-area box, the cv2.imwrite call for a patch, a label file.
Event(kind, text) == [kind |-> kind, image |-> imgIdx, index |-> i - 1, text |-> text]

\* process_images up to line 63; the output directories exist or not.
InitDriver ==
    /\ InitCommon
    /\ pc = "folders"
    /\ nImages \in 0..MaxImages
    /\ out_dirs \in BOOLEAN \X BOOLEAN
    /\ box = NoBox
    /\ input = NoBox
    /\ bnd = NoBox

\* The message create_output_folders prints for a directory.
mkdir_message(is_dir, made, name) ==
    IF is_dir THEN <<>>
    ELSE IF made THEN << Event("mkdir_ok", name) >>
    ELSE << Event("mkdir_failed", name) >>

\* create_output_folders: a directory that is missing is made; when mkdir
\* raises OSError the failure is printed and the run goes on without it.
CreateOutputFolders ==
    /\ pc = "folders"
    /\ \E made_patches \in BOOLEAN, made_labels \in BOOLEAN :
        /\ out_dirs' = << out_dirs[1] \/ made_patches, out_dirs[2] \/ made_labels >>
        /\ log' = log \o mkdir_message(out_dirs[1], made_patches, "patches")
                      \o mkdir_message(out_dirs[2], made_labels, "labels")
    /\ pc' = "images"
    /\ UNCHANGED <<locals, geom_vars, nImages, imgIdx>>

\* process_images: the loop takes the next image and calls extract_patch_data.
NextImage ==
    /\ pc = "images"
    /\ imgIdx < nImages
    /\ imgIdx' = imgIdx + 1
    /\ pc' = "extract"
    /\ UNCHANGED <<locals, geom_vars, out_dirs, nImages, log>>

\* process_images: the loop is exhausted and the run ends.
ImagesDone ==
    /\ pc = "images"
    /\ imgIdx = nImages
    /\ pc' = "done"
    /\ UNCHANGED <<locals, geom_vars, out_dirs, nImages, imgIdx, log>>

\* extract_patch_data: cv2.imread decodes the image and the label file is read.
ReadImage ==
    /\ pc = "extract"
    /\ \E shape \in Shapes, n \in 0..MaxLabels :
        /\ image' = shape
        /\ nLabels' = n
    /\ i' = 0
    /\ pc' = "labels"
    /\ UNCHANGED <<box, original, clamped, geom_vars, out_dirs, nImages, imgIdx,
                   class_label, log>>

\* extract_patch_data: cv2.imread cannot read the image and returns None; the
\* label file is read.
ReadUnreadableImage ==
    /\ pc = "extract"
    /\ image' = None
    /\ nLabels' \in 0..MaxLabels
    /\ i' = 0
    /\ pc' = "labels"
    /\ UNCHANGED <<box, original, clamped, geom_vars, out_dirs, nImages, imgIdx,
                   class_label, log>>

\* extract_patch_data: the image has no label file of its name;
\* label_path.open() raises FileNotFoundError, nothing catches it and the
\* run ends.
LabelFileMissing ==
    /\ pc = "extract"
    /\ image' \in Shapes \cup {None}
    /\ pc' = "aborted"
    /\ UNCHANGED <<box, original, clamped, geom_vars, out_dirs, nImages, imgIdx,
                   nLabels, i, class_label, log>>

\* The loop over the labels takes the next line and convert_label_to_dict
\* parses it; what is remembered of the label before it is dropped.
ParseLabel ==
    /\ pc = "labels"
    /\ i < nLabels
    /\ \E label \in GoodLines :
        LET label_dict == convert_label_to_dict(label) IN
        /\ ~label_dict.raised
        /\ box' = label_dict.bbox
        /\ class_label' = label_dict.class
    /\ original' = NoBox
    /\ clamped' = NoBox
    /\ i' = i + 1
    /\ pc' = "confine"
    /\ UNCHANGED <<geom_vars, out_dirs, nImages, imgIdx, image, nLabels, log>>

\* The loop over the labels takes the next line and convert_label_to_dict
\* raises on it; nothing catches it and the run ends.
ParseMalformed ==
    /\ pc = "labels"
    /\ i < nLabels
    /\ \E label \in BadLines : convert_label_to_dict(label).raised
    /\ i' = i + 1
    /\ pc' = "aborted"
    /\ UNCHANGED <<box, original, clamped, geom_vars, out_dirs, nImages, imgIdx,
                   image, nLabels, class_label, log>>

\* The loop over the labels is exhausted: extract_patch_data returns and its
\* locals are gone.
LabelsDone ==
    /\ pc = "labels"
    /\ i = nLabels
    /\ box' = NoBox
    /\ original' = NoBox
    /\ clamped' = NoBox
    /\ image' = None
    /\ nLabels' = 0
    /\ i' = 0
    /\ class_label' = ""
    /\ pc' = "images"
    /\ UNCHANGED <<geom_vars, out_dirs, nImages, imgIdx, log>>

\* confine_box(box, 0, 0, image.shape[0], image.shape[1]).
Confine ==
    /\ pc = "confine"
    /\ image # None
    /\ box' = confine_box(box, W(0), W(0), W(image[1]), W(image[2]))
    /\ clamped' = box'
    /\ pc' = "pad"
    /\ UNCHANGED <<original, geom_vars, out_dirs, nImages, imgIdx, image, nLabels, i,
                   class_label, log>>

\* image is None: image.shape raises AttributeError; nothing catches it and
\* the run ends.
ConfineNoImage ==
    /\ pc = "confine"
    /\ image = None
    /\ pc' = "aborted"
    /\ UNCHANGED <<locals, geom_vars, out_dirs, nImages, imgIdx, log>>

\* pad_to_square(box, 0, 0, image.shape[0], image.shape[1]) returns.
PadOk ==
    /\ pc = "pad"
    /\ LET r == pad_to_square(box, W(0), W(0), W(image[1]), W(image[2])) IN
        /\ ~r.raised
        /\ original' = box
        /\ box' = r.box
    /\ pc' = "check"
    /\ UNCHANGED <<clamped, geom_vars, out_dirs, nImages, imgIdx, image, nLabels, i,
                   class_label, log>>

\* pad_to_square raises ValueError: the except clause prints a warning and
\* continues with the next label.
PadRaise ==
    /\ pc = "pad"
    /\ LET r == pad_to_square(box, W(0), W(0), W(image[1]), W(image[2])) IN
        /\ r.raised
        /\ original' = box
        /\ box' = r.box
    /\ log' = Append(log, Event("warning_pad", ""))
    /\ pc' = "labels"
    /\ UNCHANGED <<clamped, geom_vars, out_dirs, nImages, imgIdx, image, nLabels, i,
                   class_label>>

\* The test of line 102 on the padded box.
zero_area(b) == WSub(b[3], b[1]) = W(0) \/ WSub(b[4], b[2]) = W(0)
\* image[box[1]:box[3], box[0]:box[2]] has no pixel: the box is within the
\* image, so a slice is empty exactly when its stop is not above its start.
empty_patch(b) == ~WLt(b[2], b[4]) \/ ~WLt(b[1], b[3])

\* The padded box has zero width or height: a warning is printed and the
\* loop continues with the next label.
SkipZero ==
    /\ pc = "check"
    /\ zero_area(box)
    /\ log' = Append(log, Event("warning_zero", ""))
    /\ pc' = "labels"
    /\ UNCHANGED <<locals, geom_vars, out_dirs, nImages, imgIdx>>

\* The padded box is inverted: the patch is empty, cv2.resize raises on it,
\* nothing catches it and the run ends.
ResizeEmptyPatch ==
    /\ pc = "check"
    /\ ~zero_area(box)
    /\ empty_patch(box)
    /\ pc' = "aborted"
    /\ UNCHANGED <<locals, geom_vars, out_dirs, nImages, imgIdx, log>>

\* cv2.imwrite(patch_file_path, patch): it writes the file when the patches
\* directory exists and returns False when it does not.
imwrite(dir_exists) == Event("patch", IF dir_exists THEN "written" ELSE "not written")

\* The patch is cut out, resized and handed to cv2.imwrite, then the label
\* file is written.
WritePatch ==
    /\ pc = "check"
    /\ ~zero_area(box)
    /\ ~empty_patch(box)
    /\ out_dirs[2]
    /\ log' = log \o << imwrite(out_dirs[1]), Event("label", class_label) >>
    /\ pc' = "labels"
    /\ UNCHANGED <<locals, geom_vars, out_dirs, nImages, imgIdx>>

\* The labels directory is missing: after cv2.imwrite, open(label_file_path,
\* 'w') raises an OSError (FileNotFoundError), nothing catches it and the
\* run ends.
WriteLabelNoFolder ==
    /\ pc = "check"
    /\ ~zero_area(box)
    /\ ~empty_patch(box)
    /\ ~out_dirs[2]
    /\ log' = Append(log, imwrite(out_dirs[1]))
    /\ pc' = "aborted"
    /\ UNCHANGED <<locals, geom_vars, out_dirs, nImages, imgIdx>>

\* A whole run of process_images on any dataset.
Next ==
    \/ CreateOutputFolders \/ NextImage \/ ImagesDone
    \/ ReadImage \/ ReadUnreadableImage \/ LabelFileMissing
    \/ ParseLabel \/ ParseMalformed \/ LabelsDone
    \/ Confine \/ ConfineNoImage \/ PadOk \/ PadRaise
    \/ SkipZero \/ ResizeEmptyPatch \/ WritePatch \/ WriteLabelNoFolder

Spec == InitDriver /\ [][Next]_vars

\* ------------------------------------------------------- geometry claims
Within(b, q) ==
    /\ WLe(q[2], b[1]) /\ WLe(b[1], q[4])
    /\ WLe(q[2], b[3]) /\ WLe(b[3], q[4])
    /\ WLe(q[1], b[2]) /\ WLe(b[2], q[3])
    /\ WLe(q[1], b[4]) /\ WLe(b[4], q[3])
Ordered(b) == WLe(b[1], b[3]) /\ WLe(b[2], b[4])
WidthOf(b) == WSub(b[3], b[1])
HeightOf(b) == WSub(b[4], b[2])
\* d = |width - height| of the box pad_to_square was called on.
Difference == Abs(WSub(WidthOf(original), HeightOf(original)))
PadReturned == pc \in {"g_padded", "g_confined_padded"}
PadRaised == pc \in {"g_raised", "g_confined_raised"}
InBounds(b) ==
    /\ WLe(bnd[2], b[1]) /\ WLe(b[3], bnd[4])
    /\ WLe(bnd[1], b[2]) /\ WLe(b[4], bnd[3])

\* C1: whenever pad_to_square returns without raising, for any
\* integer box and any bounds with min <= max, the box is square and lies
\* within the bounds, with or without an edge correction.
C1_SquareForEveryBox ==
    PadReturned => (WidthOf(box) = HeightOf(box) /\ InBounds(box))

\* C2: confine_box leaves each coordinate within the bounds' interval of its
\* own axis, for any box, inverted or far outside included.
C2_ConfineContainment ==
    pc = "g_confined" => /\ WLe(bnd[2], box[1]) /\ WLe(box[1], bnd[4])
                         /\ WLe(bnd[2], box[3]) /\ WLe(box[3], bnd[4])
                         /\ WLe(bnd[1], box[2]) /\ WLe(box[2], bnd[3])
                         /\ WLe(bnd[1], box[4]) /\ WLe(box[4], bnd[3])

\* confine_box was applied to an inverted box lying outside the bounds on
\* both sides of the x axis.
C2_Witness ==
    /\ pc = "g_confined"
    /\ WLt(bnd[4], input[1]) /\ WLt(input[3], bnd[2])
    /\ WLt(input[4], input[2])

\* C3: confine_box leaves a box already within the bounds unchanged, and
\* applying it twice gives the same box as applying it once.
C3_ConfineIdempotent ==
    /\ (pc = "g_confined" /\ Within(input, bnd)) => box = input
    /\ pc = "g_confined2" => box = clamped

\* confine_box was applied twice to a box the first application changed.
C3_Witness ==
    /\ pc = "g_confined2"
    /\ clamped # input
    /\ \E k \in 1..4 : clamped[k] \in {bnd[3], bnd[4]}

\* The test made up front: the longer dimension against the span of the
\* bounds on the other axis.
LongerExceedsSpan ==
    LET w == WidthOf(original)
        h == HeightOf(original)
    IN  \/ (WLt(h, w) /\ WLt(WSub(bnd[3], bnd[1]), w))
        \/ (WLt(w, h) /\ WLt(WSub(bnd[4], bnd[2]), h))

\* Bounds of height 10 and width 100: the box (0, 0, 100, 5) raises.
C4_Example == pad_to_square(WBox(0, 0, 100, 5), W(0), W(0), W(10), W(100)).raised

\* C4: for an in-bounds box with min <= max, pad_to_square raises exactly
\* when the longer dimension exceeds the span of the bounds on the axis of
\* the shorter dimension; a square in-bounds box never raises; with bounds
\* of height 10 and width 100 the box (0, 0, 100, 5) raises.
C4_RaisesIffLongerExceedsSpan ==
    /\ ((PadReturned \/ PadRaised) /\ Within(original, bnd) /\ Ordered(original)) =>
           (PadRaised <=> LongerExceedsSpan)
    /\ C4_Example

\* The axis of the longer original dimension is as it was.
LongerAxisUnchanged ==
    LET w == WidthOf(original)
        h == HeightOf(original)
    IN  /\ WLe(h, w) => (box[1] = original[1] /\ box[3] = original[3])
        /\ WLe(w, h) => (box[2] = original[2] /\ box[4] = original[4])
\* Both sides of the result equal the longer original dimension.
SideIsLonger ==
    LET longer == Max(WidthOf(original), HeightOf(original))
    IN  WidthOf(box) = longer /\ HeightOf(box) = longer

\* C8: when pad_to_square succeeds, the coordinates on the axis of
\* the longer original dimension are unchanged and the side of the square is
\* the longer of the original width and height.
C8_SideIsLongerForEveryBox ==
    PadReturned => (LongerAxisUnchanged /\ SideIsLonger)

\* [lo - ceil(d/2), hi + floor(d/2)] in exact arithmetic.
CentredInterval(lo, hi, d) == << WSub(lo, WCeilHalf(d)), WAdd(hi, WFloorHalf(d)) >>
\* <<r1, r2>> is the interval c translated by the smallest shift that puts
\* it inside [bmin, bmax]: c itself when it fits, else c moved until the end
\* that stuck out lies on its bound.
SmallestShift(r, c, bmin, bmax) ==
    /\ WSub(r[2], r[1]) = WSub(c[2], c[1])
    /\ WLe(bmin, r[1]) /\ WLe(r[2], bmax)
    /\ (WLe(bmin, c[1]) /\ WLe(c[2], bmax)) => r = c
    /\ WLt(c[1], bmin) => r[1] = bmin
    /\ WLt(bmax, c[2]) => r[2] = bmax

\* The shorter axis of the result against the centred interval and its
\* smallest shift.
ShorterAxisCentredThenShifted ==
    LET w == WidthOf(original)
        h == HeightOf(original)
        cy == CentredInterval(original[2], original[4], Difference)
        cx == CentredInterval(original[1], original[3], Difference)
    IN  /\ w = h => box = original
        /\ WLt(h, w) => SmallestShift(<< box[2], box[4] >>, cy, bnd[1], bnd[3])
        /\ WLt(w, h) => SmallestShift(<< box[1], box[3] >>, cx, bnd[2], bnd[4])

\* Bounds (0,0,100,100): box (0,0,10,5) gives (0,0,10,10), box (45,0,55,100)
\* gives (0,0,100,100) and box (10,10,20,20) is unchanged.
C9_Examples ==
    /\ pad_to_square(WBox(0, 0, 10, 5), W(0), W(0), W(100), W(100)) =
           [box |-> WBox(0, 0, 10, 10), raised |-> FALSE]
    /\ pad_to_square(WBox(45, 0, 55, 100), W(0), W(0), W(100), W(100)) =
           [box |-> WBox(0, 0, 100, 100), raised |-> FALSE]
    /\ pad_to_square(WBox(10, 10, 20, 20), W(0), W(0), W(100), W(100)) =
           [box |-> WBox(10, 10, 20, 20), raised |-> FALSE]

\* C9: on success for an in-bounds box with min <= max, the shorter axis is
\* the centred interval [min - ceil(d/2), max + floor(d/2)] translated by the
\* smallest shift that fits it in the bounds: unchanged when it fits,
\* anchored at the bound minimum when its lower end falls below it, anchored
\* at the bound maximum when its upper end exceeds it; a square box is
\* returned unchanged, and the claim's three examples hold.
C9_ShorterAxis ==
    /\ (PadReturned /\ Within(original, bnd) /\ Ordered(original)) =>
           ShorterAxisCentredThenShifted
    /\ C9_Examples

\* C10: after confine_box and then a successful pad_to_square with the same
\* bounds, for a box with min <= max, the square contains the clamped box.
C10_SquareContainsClamped ==
    (pc = "g_confined_padded" /\ Ordered(input)) =>
        /\ WLe(box[1], clamped[1]) /\ WLe(box[2], clamped[2])
        /\ WLe(clamped[3], box[3]) /\ WLe(clamped[4], box[4])

\* confine_box clipped the box, and pad_to_square then put all the padding
\* on the max side because of an edge correction at the lower bound.
C10_Witness ==
    /\ pc = "g_confined_padded" /\ Ordered(input)
    /\ clamped # input
    /\ box # clamped
    /\ box[1] = clamped[1] /\ box[2] = clamped[2]

\* --------------------------------------------------------- driver claims
\* A file that exists after the run: a patch cv2.imwrite wrote, a label file.
IsFile(e) == (e.kind = "patch" /\ e.text = "written") \/ e.kind = "label"
Degenerate(b) == WidthOf(b) = W(0) \/ HeightOf(b) = W(0)

\* C5: a label whose box has zero width or zero height after confine_box is
\* skipped: no patch file and no label file is written for it.
C5_DegenerateClampedSkipped ==
    (pc = "labels" /\ i > 0 /\ image # None /\ Degenerate(clamped)) =>
        \A k \in 1..Len(log) :
            ~(IsFile(log[k]) /\ log[k].image = imgIdx /\ log[k].index = i - 1)

\* C6: when pad_to_square raises for a label, nothing is written for that
\* label and the run does not abort: the later labels of the same image are
\* still processed and the loop reaches the end of the list.
C6_PadFailureSkipsAndContinues ==
    \A k \in 1..Len(log) :
        log[k].kind = "warning_pad" =>
            /\ \A m \in 1..Len(log) :
                   IsFile(log[m]) =>
                       ~(log[m].image = log[k].image /\ log[m].index = log[k].index)
            /\ log[k].image = imgIdx => pc # "aborted"

\* C7: a malformed label line does not stop the remaining labels of the
\* image from being processed, and an unreadable image does not stop the
\* remaining images of the run: the run never ends with labels or images
\* left over.
C7_FailuresDoNotAbort ==
    ~(pc = "aborted" /\ (i < nLabels \/ imgIdx < nImages))

====
